---------------------------- MODULE Spec2Model ----------------------------
(***************************************************************************)
(* State-machine model of the ticket retrieval core:                       *)
(*   - the vector index (src/src/faiss_index.py): build, save, load,       *)
(*     search over one FAISSIndex object and the three artifacts on disk;  *)
(*   - the normalizer (src/src/data_processing.py): column, ticket id,     *)
(*     date and embedding-text normalization of the combined table, the    *)
(*     snapshot and the documents made from either;                        *)
(*   - the candidates of a recommendation (src/src/llm_client.py);         *)
(*   - the requests the server (src/server.py) handles over one index.     *)
(* Strings whose characters matter are sequences of one-character strings. *)
(***************************************************************************)
EXTENDS Integers, Sequences, FiniteSets, TLC

VARIABLES
    index,      \* FAISSIndex.index: NoIndex or a flat inner-product index
    ids,        \* FAISSIndex.ids
    metadata,   \* FAISSIndex.metadata
    fs,         \* the three artifacts at index_path, ids_path, meta_path
    last,       \* the last call on the object and how it ended
    saved,      \* history: the triple the last successful save() wrote from
    dir,        \* unify_tickets: the files of input_dir, in iterdir() order
    table,      \* unify_tickets: the combined table (the DataFrame df)
    npc,        \* unify_tickets: the step reached
    csv,        \* the unified snapshot at UNIFIED_CSV_PATH
    first,      \* history: the table as the first run of the four steps left it
    warnings,   \* unify_tickets: the files a "Warning:" line was printed for
    jsonl,      \* create_documents: the documents file and the list returned
    requests,   \* server: the requests in flight over the loaded index
    similar_tickets,  \* _prepare_candidates: the hits handed in
    candidates  \* _prepare_candidates: what the call returned

ivars == <<index, ids, metadata, fs, last, saved>>
nvars == <<dir, table, npc, csv, first, warnings, jsonl>>
svars == <<requests>>
cvars == <<similar_tickets, candidates>>
vars == <<index, ids, metadata, fs, last, saved, dir, table, npc, csv, first,
          warnings, jsonl, requests, similar_tickets, candidates>>

----------------------------------------------------------------------------
(* Bounds of the model.                                                     *)

\* most hits handed to _prepare_candidates
MaxHits == 2
\* longest documents file handed to build()
MaxDocs == 2
\* largest top_k handed to search()
MaxK == 2
\* most files in the input directory of unify_tickets
MaxFiles == 2

----------------------------------------------------------------------------
(* Strings and JSON values.                                                 *)

Whitespace == {" "}

RECURSIVE LStrip(_)
LStrip(s) ==
    IF s = <<>> THEN <<>>
    ELSE IF Head(s) \in Whitespace THEN LStrip(Tail(s)) ELSE s

RECURSIVE RStrip(_)
RStrip(s) ==
    IF s = <<>> THEN <<>>
    ELSE IF s[Len(s)] \in Whitespace THEN RStrip(SubSeq(s, 1, Len(s) - 1)) ELSE s

\* str.strip()
Strip(s) == RStrip(LStrip(s))

JNull == [t |-> "null"]
JDict(kv) == [t |-> "dict", kv |-> kv]
EmptyDict == JDict({})

\* Python truthiness of a JSON value
Truthy(v) == v.t = "dict" /\ v.kv # {}

\* dict.get(key, default)
DictGet(d, key, default) == IF key \in DOMAIN d THEN d[key] ELSE default

----------------------------------------------------------------------------
(* Documents (lines of the documents file) the model draws from.           *)

DocVpn ==
    [id |-> <<"T", "1">>, text |-> <<"v">>,
     metadata |-> JDict({<<"ticket_id", <<"T", "C", "K", "T", "-", "1">>>>, <<"resolved", <<"t", "r", "u", "e">>>>})]
DocPrinter ==
    [id |-> <<" ", "T", "2", " ">>, text |-> <<" ", "p">>, metadata |-> JNull]
DocBlankText ==
    [id |-> <<"T", "3">>, text |-> <<" ">>,
     metadata |-> JDict({<<"ticket_id", <<"T", "C", "K", "T", "-", "3">>>>})]
DocNoId ==
    [text |-> <<"m">>]

RawDocs == {DocVpn, DocPrinter, DocBlankText, DocNoId}

RECURSIVE SeqsUpTo(_, _)
SeqsUpTo(S, n) ==
    IF n = 0 THEN {<<>>}
    ELSE LET shorter == SeqsUpTo(S, n - 1)
         IN  shorter \cup {Append(s, x) : s \in {t \in shorter : Len(t) = n - 1}, x \in S}

DocLists == SeqsUpTo(RawDocs, MaxDocs)

----------------------------------------------------------------------------
(* FAISSIndex._prepare_items                                                *)

DocKept(doc) ==
    LET doc_id == Strip(DictGet(doc, "id", <<>>))
        text   == Strip(DictGet(doc, "text", <<>>))
    IN  ~(doc_id = <<>> \/ text = <<>>)

\* variant of PrepareItems: the metadata is appended before the filter
RECURSIVE PrepareItemsMetaUnfiltered(_)
PrepareItemsMetaUnfiltered(documents) ==
    IF documents = <<>> THEN [ids |-> <<>>, texts |-> <<>>, metadata |-> <<>>]
    ELSE LET doc    == Head(documents)
             rest   == PrepareItemsMetaUnfiltered(Tail(documents))
             doc_id == Strip(DictGet(doc, "id", <<>>))
             text   == Strip(DictGet(doc, "text", <<>>))
             m      == DictGet(doc, "metadata", EmptyDict)
             meta   == IF Truthy(m) THEN m ELSE EmptyDict
         IN  IF ~DocKept(doc) THEN [rest EXCEPT !.metadata = <<meta>> \o @]
             ELSE [ids      |-> <<doc_id>> \o rest.ids,
                   texts    |-> <<text>> \o rest.texts,
                   metadata |-> <<meta>> \o rest.metadata]

RECURSIVE PrepareItems(_)
PrepareItems(documents) ==
    IF documents = <<>> THEN [ids |-> <<>>, texts |-> <<>>, metadata |-> <<>>]
    ELSE LET doc    == Head(documents)
             rest   == PrepareItems(Tail(documents))
             doc_id == Strip(DictGet(doc, "id", <<>>))
             text   == Strip(DictGet(doc, "text", <<>>))
             m      == DictGet(doc, "metadata", EmptyDict)
             meta   == IF Truthy(m) THEN m ELSE EmptyDict
         IN  IF ~DocKept(doc) THEN rest
             ELSE [ids      |-> <<doc_id>> \o rest.ids,
                   texts    |-> <<text>> \o rest.texts,
                   metadata |-> <<meta>> \o rest.metadata]

----------------------------------------------------------------------------
(* EmbeddingModel                                                           *)

EMBEDDING_BATCH_SIZE == 128

\* SentenceTransformer.encode(..., normalize_embeddings=True) on one text:
\* an external model; here a fixed map to vectors of one common length (5).
ModelEncode(text) ==
    IF text = <<>> THEN <<4, 3>>
    ELSE IF Head(text) = "v" THEN <<5, 0>>
    ELSE IF Head(text) = "p" THEN <<0, 5>>
    ELSE <<3, 4>>

Min(a, b) == IF a < b THEN a ELSE b

\* the batches of encode_texts, stacked
RECURSIVE EncodeBatches(_, _)
EncodeBatches(texts, i) ==
    IF i > Len(texts) THEN <<>>
    ELSE LET batch == SubSeq(texts, i, Min(Len(texts), i + EMBEDDING_BATCH_SIZE - 1))
         IN  <<[j \in 1..Len(batch) |-> ModelEncode(batch[j])]>>
                 \o EncodeBatches(texts, i + EMBEDDING_BATCH_SIZE)

RECURSIVE VStack(_)
VStack(batches) ==
    IF batches = <<>> THEN <<>> ELSE Head(batches) \o VStack(Tail(batches))

\* encode_texts: the model raises in the first batch when it fails; with no
\* batch at all the model is never called and ValueError is raised
EncodeTexts(texts, modelFails) ==
    IF Len(texts) > 0 /\ modelFails THEN [raised |-> "EmbeddingError", rows |-> <<>>]
    ELSE LET embeddings == EncodeBatches(texts, 1)
         IN  IF embeddings = <<>> THEN [raised |-> "ValueError", rows |-> <<>>]
             ELSE [raised |-> "no", rows |-> VStack(embeddings)]

QueryVectors == {<<5, 0>>, <<3, 4>>}

----------------------------------------------------------------------------
(* The flat inner-product index (faiss.IndexFlatIP).                        *)

NoIndex == [isNone |-> TRUE, xb |-> <<>>]
FlatIP(rows) == [isNone |-> FALSE, xb |-> rows]
ntotal(ix) == Len(ix.xb)

InnerProduct(a, b) == a[1] * b[1] + a[2] * b[2]

\* the score FAISS reports with label -1 for a missing neighbour
NegInf == -1000000

\* position (0-based) of the best vector outside `taken`: highest inner
\* product, the lowest position among equals
BestOutside(xb, q, taken) ==
    CHOOSE p \in (0..(Len(xb) - 1)) \ taken :
        \A r \in (0..(Len(xb) - 1)) \ taken :
            \/ InnerProduct(xb[p + 1], q) > InnerProduct(xb[r + 1], q)
            \/ InnerProduct(xb[p + 1], q) = InnerProduct(xb[r + 1], q) /\ p <= r

\* index.search(query, k): k (distance, label) pairs, ranked, padded with -1
RECURSIVE FaissSearchFrom(_, _, _, _)
FaissSearchFrom(xb, q, k, taken) ==
    IF k = 0 THEN <<>>
    ELSE IF Cardinality(taken) = Len(xb)
         THEN <<[score |-> NegInf, idx |-> -1]>> \o FaissSearchFrom(xb, q, k - 1, taken)
         ELSE LET p == BestOutside(xb, q, taken)
              IN  <<[score |-> InnerProduct(xb[p + 1], q), idx |-> p]>>
                      \o FaissSearchFrom(xb, q, k - 1, taken \cup {p})

FaissSearch(ix, q, k) == FaissSearchFrom(ix.xb, q, k, {})

----------------------------------------------------------------------------
(* FAISSIndex.search                                                        *)

\* variant of SkipHit: the guard forgets the negative "no match" label
SkipHitNoSentinel(idx, nIds) == idx >= nIds

\* the guard of the result loop: the hit is skipped
SkipHit(idx, nIds) == idx < 0 \/ idx >= nIds

\* Python's seq[idx] for an idx the guard let through; a negative idx counts
\* from the end
PyIndexOk(idx, n) == IF idx < 0 THEN -idx <= n ELSE idx < n
PyIndex(seq, idx) == IF idx < 0 THEN seq[Len(seq) + idx + 1] ELSE seq[idx + 1]

\* the loop over zip(distances[0], indices[0]); IndexError ends it
RECURSIVE SearchLoop(_, _, _)
SearchLoop(hits, idSeq, metaSeq) ==
    IF hits = <<>> THEN [raised |-> FALSE, results |-> <<>>]
    ELSE LET h    == Head(hits)
             rest == SearchLoop(Tail(hits), idSeq, metaSeq)
         IN  IF SkipHit(h.idx, Len(idSeq)) THEN rest
             ELSE IF ~PyIndexOk(h.idx, Len(idSeq)) \/ ~PyIndexOk(h.idx, Len(metaSeq))
                  THEN [raised |-> TRUE, results |-> <<>>]
                  ELSE IF rest.raised THEN rest
                       ELSE [raised  |-> FALSE,
                             results |-> <<[id       |-> PyIndex(idSeq, h.idx),
                                            score    |-> h.score,
                                            metadata |-> PyIndex(metaSeq, h.idx)]>>
                                         \o rest.results]

\* list.sort(key=score, reverse=True): stable, equal scores keep their order
RECURSIVE InsertByScore(_, _)
InsertByScore(sorted, x) ==
    IF sorted = <<>> THEN <<x>>
    ELSE IF Head(sorted).score >= x.score
         THEN <<Head(sorted)>> \o InsertByScore(Tail(sorted), x)
         ELSE <<x>> \o sorted

RECURSIVE SortByScoreDesc(_)
SortByScoreDesc(results) ==
    IF results = <<>> THEN <<>>
    ELSE InsertByScore(SortByScoreDesc(SubSeq(results, 1, Len(results) - 1)),
                       results[Len(results)])

\* search() on an object holding (ix, idSeq, metaSeq)
SearchOn(ix, idSeq, metaSeq, q, k) ==
    IF ix.isNone THEN [outcome |-> "RuntimeError", results |-> <<>>]
    ELSE LET looped == SearchLoop(FaissSearch(ix, q, k), idSeq, metaSeq)
         IN  IF looped.raised THEN [outcome |-> "IndexError", results |-> <<>>]
             ELSE [outcome |-> "ok", results |-> SortByScoreDesc(looped.results)]

----------------------------------------------------------------------------
(* The artifacts on disk.                                                   *)

Absent == [exists |-> FALSE, data |-> <<>>]
File(data) == [exists |-> TRUE, data |-> data]

\* faiss.write_index / faiss.read_index: the stored vectors
WriteIndex(ix) == File(ix.xb)
ReadIndex(file) == FlatIP(file.data)

\* np.save(np.array(ids, dtype=object)) / np.load(...).tolist(); ids_path is
\* the configured FAISS_IDS_PATH, which ends in .npy, so np.save writes the
\* very path np.load reads
SaveIds(idSeq) == File(idSeq)
LoadIds(file) == file.data

\* one json.dump(meta) line per metadata object / json.loads per line
JsonLine(v) == [json |-> v]
JsonLoads(line) == line.json
SaveMeta(metaSeq) == File([i \in 1..Len(metaSeq) |-> JsonLine(metaSeq[i])])
LoadMeta(file) == [i \in 1..Len(file.data) |-> JsonLoads(file.data[i])]

\* what an earlier run of build_index.py left behind
PrevItems == PrepareItems(<<DocPrinter, DocVpn>>)
PrevIndex == FlatIP(EncodeTexts(PrevItems.texts, FALSE).rows)

NoCall == [op |-> "none", outcome |-> "ok", ndocs |-> 0, q |-> <<0, 0>>, k |-> 0,
           results |-> <<>>]
Call(op, outcome) == [NoCall EXCEPT !.op = op, !.outcome = outcome]

NotSaved == [valid |-> FALSE, index |-> NoIndex, ids |-> <<>>, metadata |-> <<>>]

----------------------------------------------------------------------------
(* Cell values of a DataFrame and their str().                              *)

NaN == [t |-> "nan"]
S(chars) == [t |-> "str", s |-> chars]
I(n) == [t |-> "int", n |-> n]
EmptyStr == S(<<>>)

\* pd.isna
IsNa(v) == v.t = "nan"

Digits == <<"0", "1", "2", "3", "4", "5", "6", "7", "8", "9">>
IsDigit(c) == \E d \in 1..10 : Digits[d] = c

\* str(n) of a non-negative integer
RECURSIVE IntToStr(_)
IntToStr(n) ==
    IF n < 10 THEN <<Digits[n + 1]>>
    ELSE IntToStr(n \div 10) \o <<Digits[(n % 10) + 1]>>

\* str(value)
StrOf(v) ==
    IF v.t = "str" THEN v.s
    ELSE IF v.t = "int" THEN IntToStr(v.n)
    ELSE <<"n", "a", "n">>

\* Series.fillna("")
FillNa(v) == IF IsNa(v) THEN EmptyStr ELSE v

----------------------------------------------------------------------------
(* Column names and the DataFrame.                                          *)

ticket_id == <<"t", "i", "c", "k", "e", "t", "_", "i", "d">>
issue == <<"i", "s", "s", "u", "e">>
description == <<"d", "e", "s", "c", "r", "i", "p", "t", "i", "o", "n">>
resolution == <<"r", "e", "s", "o", "l", "u", "t", "i", "o", "n">>
category == <<"c", "a", "t", "e", "g", "o", "r", "y">>
resolved == <<"r", "e", "s", "o", "l", "v", "e", "d">>
date == <<"d", "a", "t", "e">>
source_file == <<"s", "o", "u", "r", "c", "e", "_", "f", "i", "l", "e">>
agent_name == <<"a", "g", "e", "n", "t", "_", "n", "a", "m", "e">>
embedding_text == <<"e", "m", "b", "e", "d", "d", "i", "n", "g", "_", "t", "e", "x", "t">>

REQUIRED_COLUMNS == <<ticket_id, issue, description, resolution, category, resolved>>

\* str.lower() on the letters the source files use in capitals
LowerChar(c) ==
    CASE c = "T" -> "t" [] c = "I" -> "i" [] c = "D" -> "d" [] c = "R" -> "r"
      [] OTHER -> c

\* col.strip().lower().replace(" ", "_")
NormalizeName(col) ==
    LET stripped == Strip(col)
    IN  [i \in 1..Len(stripped) |->
            IF LowerChar(stripped[i]) = " " THEN "_" ELSE LowerChar(stripped[i])]

HasColumn(df, col) == \E c \in 1..Len(df.columns) : df.columns[c] = col

\* position of the column named col
ColumnAt(df, col) == CHOOSE c \in 1..Len(df.columns) : df.columns[c] = col

\* df[col] as the sequence of its values, one per row
Column(df, col) == [r \in 1..Len(df.rows) |-> df.rows[r][ColumnAt(df, col)]]

\* df[col] = values: the column is replaced in place, or appended when new
SetColumn(df, col, values) ==
    IF HasColumn(df, col)
    THEN [df EXCEPT !.rows = [r \in 1..Len(df.rows) |->
                                 [df.rows[r] EXCEPT ![ColumnAt(df, col)] = values[r]]]]
    ELSE [columns |-> Append(df.columns, col),
          rows    |-> [r \in 1..Len(df.rows) |-> Append(df.rows[r], values[r])]]

\* df[col] = "": the scalar in every row
SetColumnScalar(df, col, v) == SetColumn(df, col, [r \in 1..Len(df.rows) |-> v])

----------------------------------------------------------------------------
(* TicketDataProcessor: the four normalization steps.                      *)

\* variant of AddMissing: the new column is filled with missing values
RECURSIVE AddMissingNaN(_, _)
AddMissingNaN(df, cols) ==
    IF cols = <<>> THEN df
    ELSE AddMissingNaN(IF HasColumn(df, Head(cols)) THEN df
                       ELSE SetColumnScalar(df, Head(cols), NaN),
                       Tail(cols))

RECURSIVE AddMissing(_, _)
AddMissing(df, cols) ==
    IF cols = <<>> THEN df
    ELSE AddMissing(IF HasColumn(df, Head(cols)) THEN df
                    ELSE SetColumnScalar(df, Head(cols), EmptyStr),
                    Tail(cols))

\* _normalize_columns
NormalizeColumns(df) ==
    AddMissing([df EXCEPT !.columns = [c \in 1..Len(df.columns) |->
                                          NormalizeName(df.columns[c])]],
               REQUIRED_COLUMNS)

\* the digits at the front of s
RECURSIVE LeadingDigits(_)
LeadingDigits(s) ==
    IF s = <<>> \/ ~IsDigit(Head(s)) THEN <<>>
    ELSE <<Head(s)>> \o LeadingDigits(Tail(s))

\* variant of FirstDigitRun: the pattern \d, one digit
FirstDigitOnly(s) ==
    IF \E i \in 1..Len(s) : IsDigit(s[i])
    THEN <<s[CHOOSE i \in 1..Len(s) :
                 IsDigit(s[i]) /\ \A j \in 1..(i - 1) : ~IsDigit(s[j])]>>
    ELSE <<>>

\* re.search(r"(\d+)", s).group(0): the first maximal run of digits, <<>>
\* when there is no match
RECURSIVE FirstDigitRun(_)
FirstDigitRun(s) ==
    IF s = <<>> THEN <<>>
    ELSE IF IsDigit(Head(s)) THEN LeadingDigits(s)
    ELSE FirstDigitRun(Tail(s))

TCKT == <<"T", "C", "K", "T", "-">>
FallbackBase == 100000

\* variant of normalize_id: the fallback ignores the row's position
normalize_id_fixed(value, idx) ==
    LET str == IF IsNa(value) THEN <<>> ELSE Strip(StrOf(value))
        num == FirstDigitRun(str)
    IN  IF num # <<>> THEN TCKT \o num
        ELSE TCKT \o IntToStr(FallbackBase)

\* normalize_id(value, index), index counted from 0
normalize_id(value, idx) ==
    LET str == IF IsNa(value) THEN <<>> ELSE Strip(StrOf(value))
        num == FirstDigitRun(str)
    IN  IF num # <<>> THEN TCKT \o num
        ELSE TCKT \o IntToStr(FallbackBase + idx)

\* _normalize_ticket_ids
NormalizeTicketIds(df) ==
    LET raw == Column(df, ticket_id)
    IN  SetColumn(df, ticket_id,
                  [r \in 1..Len(df.rows) |-> S(normalize_id(FillNa(raw[r]), r - 1))])

\* a string pd.to_datetime reads as a date: YYYY-MM-DD, with or without a
\* time of day after it
IsIsoDate(s) ==
    /\ Len(s) >= 10
    /\ \A i \in {1, 2, 3, 4, 6, 7, 9, 10} : IsDigit(s[i])
    /\ s[5] = "-" /\ s[8] = "-"
    /\ Len(s) > 10 => s[11] = " "

\* variant of NormalizeDate: the date is written as DD-MM-YYYY
NormalizeDateDayFirst(v) ==
    IF v.t = "str" /\ IsIsoDate(Strip(v.s))
    THEN S(SubSeq(Strip(v.s), 9, 10) \o <<"-">> \o SubSeq(Strip(v.s), 6, 7)
           \o <<"-">> \o SubSeq(Strip(v.s), 1, 4))
    ELSE EmptyStr

\* pd.to_datetime(errors="coerce"), strftime("%Y-%m-%d"), fillna("") on one
\* value
NormalizeDate(v) ==
    IF v.t = "str" /\ IsIsoDate(Strip(v.s)) THEN S(SubSeq(Strip(v.s), 1, 10))
    ELSE EmptyStr

\* _normalize_dates
NormalizeDates(df) ==
    IF HasColumn(df, date)
    THEN SetColumn(df, date,
                   [r \in 1..Len(df.rows) |-> NormalizeDate(Column(df, date)[r])])
    ELSE SetColumnScalar(df, date, EmptyStr)

\* Series.fillna("").astype(str)
AsText(v) == S(StrOf(FillNa(v)))

IssuePrefix == <<"I", "s", "s", "u", "e", ":", " ">>
Separator == <<" ", "-", " ">>
DescriptionPrefix == <<"D", "e", "s", "c", "r", "i", "p", "t", "i", "o", "n", ":", " ">>

\* _create_embedding_text
CreateEmbeddingText(df) ==
    LET withIssue == SetColumn(df, issue,
                         [r \in 1..Len(df.rows) |-> AsText(Column(df, issue)[r])])
        withDescr == SetColumn(withIssue, description,
                         [r \in 1..Len(df.rows) |->
                             AsText(Column(withIssue, description)[r])])
    IN  SetColumn(withDescr, embedding_text,
                  [r \in 1..Len(df.rows) |->
                      S(IssuePrefix \o Column(withDescr, issue)[r].s \o Separator
                        \o DescriptionPrefix \o Column(withDescr, description)[r].s)])

----------------------------------------------------------------------------
(* The input directory and the first half of unify_tickets.                 *)

\* Every file spells a column the same way, so that no two columns of the
\* combined table are renamed to one name.
RawTicketId == <<"T", "i", "c", "k", "e", "t", " ", "I", "D">>
RawIssue == <<" ", "I", "s", "s", "u", "e">>
RawDate == <<"D", "a", "t", "e">>

FileA ==
    [name |-> <<"a", ".", "c", "s", "v">>, suffix |-> ".csv", isFile |-> TRUE, parses |-> TRUE,
     columns |-> <<RawTicketId, RawIssue, description, resolution, RawDate>>,
     rows |-> << <<S(<<"T", "i", "c", "k", "e", "t", " ", "#", "4", "4", "1", "2", "-", "b">>), S(<<"v", "p", "n">>), S(<<"d", "r", "o", "p", "s">>), S(<<"r", "e", "s", "t", "a", "r", "t">>),
                   S(<<"2", "0", "2", "4", "-", "0", "1", "-", "0", "5", " ", "1", "0", ":", "3", "0">>)>> >>]
FileB ==
    [name |-> <<"b", ".", "c", "s", "v">>, suffix |-> ".csv", isFile |-> TRUE, parses |-> TRUE,
     columns |-> <<RawTicketId, RawIssue, description>>,
     rows |-> << <<S(<<"n", "/", "a">>), NaN, S(<<"o", "f", "f", "l", "i", "n", "e">>)>> >>]
FileC ==
    [name |-> <<"c", ".", "j", "s", "o", "n">>, suffix |-> ".json", isFile |-> TRUE, parses |-> TRUE,
     columns |-> <<RawTicketId, RawIssue, RawDate>>,
     rows |-> << <<I(100001), S(<<"p", "r", "i", "n", "t", "e", "r">>), S(<<"s", "o", "o", "n">>)>> >>]
FileD ==
    [name |-> <<"d", ".", "x", "l", "s", "x">>, suffix |-> ".xlsx", isFile |-> TRUE, parses |-> TRUE,
     columns |-> <<RawIssue, description>>,
     rows |-> << <<S(<<"w", "i", "f", "i">>), NaN>>, <<NaN, S(<<"b", "o", "u", "n", "c", "e">>)>> >>]
FileNotes ==
    [name |-> <<"n", "o", "t", "e", "s", ".", "t", "x", "t">>, suffix |-> ".txt", isFile |-> TRUE, parses |-> TRUE,
     columns |-> <<>>, rows |-> <<>>]
FileBroken ==
    [name |-> <<"b", "r", "o", "k", "e", "n", ".", "c", "s", "v">>, suffix |-> ".csv", isFile |-> TRUE, parses |-> FALSE,
     columns |-> <<>>, rows |-> <<>>]
FileUpper ==
    [name |-> <<"E", ".", "C", "S", "V">>, suffix |-> ".CSV", isFile |-> TRUE, parses |-> TRUE,
     columns |-> <<RawIssue>>, rows |-> << <<S(<<"l", "o", "c", "k">>)>> >>]
SubDirectory ==
    [name |-> <<"o", "l", "d">>, suffix |-> "", isFile |-> FALSE, parses |-> FALSE,
     columns |-> <<>>, rows |-> <<>>]

DirEntries ==
    {FileA, FileB, FileC, FileD, FileUpper, FileNotes, FileBroken, SubDirectory}

\* the directories: up to MaxFiles entries, no entry twice, in any order
Directories ==
    {d \in SeqsUpTo(DirEntries, MaxFiles) :
        \A a, b \in 1..Len(d) : a # b => d[a] # d[b]}

NoTable == [columns |-> <<>>, rows |-> <<>>]

\* file_path.suffix.lower() on the suffixes of the directory
SuffixLower(suffix) == IF suffix = ".CSV" THEN ".csv" ELSE suffix

\* _read_file: a table, "None" for another suffix, "raise" when the reader
\* cannot parse the file
ReadFile(f) ==
    IF SuffixLower(f.suffix) \in {".csv", ".xlsx", ".xls", ".json"}
    THEN IF f.parses THEN [kind |-> "df", df |-> [columns |-> f.columns, rows |-> f.rows]]
         ELSE [kind |-> "raise", df |-> NoTable]
    ELSE [kind |-> "None", df |-> NoTable]

\* variant of ReadAll: the first file that gives no table ends the loop
RECURSIVE ReadAllUntilFailure(_)
ReadAllUntilFailure(entries) ==
    IF entries = <<>> THEN <<>>
    ELSE LET f    == Head(entries)
             read == ReadFile(f)
         IN  IF ~f.isFile THEN ReadAllUntilFailure(Tail(entries))
             ELSE IF read.kind # "df" THEN <<>>
             ELSE <<SetColumnScalar(read.df, source_file, S(f.name))>>
                      \o ReadAllUntilFailure(Tail(entries))

\* the loop over input_dir.iterdir(): the tables read, each tagged
RECURSIVE ReadAll(_)
ReadAll(entries) ==
    IF entries = <<>> THEN <<>>
    ELSE LET f    == Head(entries)
             read == ReadFile(f)
         IN  IF ~f.isFile \/ read.kind # "df" THEN ReadAll(Tail(entries))
             ELSE <<SetColumnScalar(read.df, source_file, S(f.name))>>
                      \o ReadAll(Tail(entries))

\* the same loop: the file names of the "Warning: Could not read" lines, one
\* for every exception of _read_file; a None is passed over without a line
RECURSIVE ReadWarnings(_)
ReadWarnings(entries) ==
    IF entries = <<>> THEN <<>>
    ELSE LET f == Head(entries)
         IN  IF f.isFile /\ ReadFile(f).kind = "raise"
             THEN <<f.name>> \o ReadWarnings(Tail(entries))
             ELSE ReadWarnings(Tail(entries))

\* the columns of pd.concat(sort=False): in order of first appearance
RECURSIVE UnionColumns(_, _)
UnionColumns(cols, more) ==
    IF more = <<>> THEN cols
    ELSE UnionColumns(IF \E c \in 1..Len(cols) : cols[c] = Head(more) THEN cols
                      ELSE Append(cols, Head(more)),
                      Tail(more))

RECURSIVE ConcatColumns(_)
ConcatColumns(dataframes) ==
    IF dataframes = <<>> THEN <<>>
    ELSE UnionColumns(Head(dataframes).columns, ConcatColumns(Tail(dataframes)))

\* the rows of one table laid out over the combined columns, NaN where the
\* table has no such column
Reindexed(df, cols) ==
    [r \in 1..Len(df.rows) |->
        [c \in 1..Len(cols) |->
            IF HasColumn(df, cols[c]) THEN df.rows[r][ColumnAt(df, cols[c])] ELSE NaN]]

RECURSIVE ConcatRows(_, _)
ConcatRows(dataframes, cols) ==
    IF dataframes = <<>> THEN <<>>
    ELSE Reindexed(Head(dataframes), cols) \o ConcatRows(Tail(dataframes), cols)

\* pd.concat(dataframes, ignore_index=True, sort=False)
Concat(dataframes) ==
    LET cols == ConcatColumns(dataframes)
    IN  [columns |-> cols, rows |-> ConcatRows(dataframes, cols)]

NotYet == [valid |-> FALSE, df |-> NoTable]

----------------------------------------------------------------------------
(* unify_tickets, step by step, and a second run of the four steps over    *)
(* its own output.                                                          *)

\* lines 31-50: read every file, fail when none gave a table, concatenate
ReadSources ==
    /\ npc = "start"
    /\ \E dataframes \in {ReadAll(dir)} :
          IF dataframes = <<>>
          THEN /\ npc' = "FileNotFoundError"
               /\ UNCHANGED table
          ELSE /\ table' = Concat(dataframes)
               /\ npc' = "columns"
    /\ warnings' = ReadWarnings(dir)
    /\ UNCHANGED <<dir, csv, first, jsonl, ivars, svars, cvars>>

NormalizeColumnsStep ==
    /\ npc = "columns"
    /\ table' = NormalizeColumns(table)
    /\ npc' = "ids"
    /\ UNCHANGED <<dir, csv, first, warnings, jsonl, ivars, svars, cvars>>

NormalizeTicketIdsStep ==
    /\ npc = "ids"
    /\ table' = NormalizeTicketIds(table)
    /\ npc' = "dates"
    /\ UNCHANGED <<dir, csv, first, warnings, jsonl, ivars, svars, cvars>>

NormalizeDatesStep ==
    /\ npc = "dates"
    /\ table' = NormalizeDates(table)
    /\ npc' = "text"
    /\ UNCHANGED <<dir, csv, first, warnings, jsonl, ivars, svars, cvars>>

CreateEmbeddingTextStep ==
    /\ npc = "text"
    /\ table' = CreateEmbeddingText(table)
    /\ npc' = "csv"
    /\ UNCHANGED <<dir, csv, first, warnings, jsonl, ivars, svars, cvars>>

\* a cell as to_csv writes it: a missing value is an empty field
CsvField(v) == IF IsNa(v) THEN <<>> ELSE StrOf(v)

\* df.to_csv(UNIFIED_CSV_PATH, index=False): the header and one line per row
ToCsv(df) ==
    [exists  |-> TRUE,
     columns |-> df.columns,
     rows    |-> [r \in 1..Len(df.rows) |->
                     [c \in 1..Len(df.columns) |-> CsvField(df.rows[r][c])]]]

NoCsv == [exists |-> FALSE, columns |-> <<>>, rows |-> <<>>]

\* line 57, after which unify_tickets returns the table
WriteCsv ==
    /\ npc = "csv"
    /\ csv' = ToCsv(table)
    /\ npc' = "normalized"
    /\ UNCHANGED <<dir, table, first, warnings, jsonl, ivars, svars, cvars>>

\* the four steps are applied again to the table they produced
Renormalize ==
    /\ npc = "normalized"
    /\ ~first.valid
    /\ first' = [valid |-> TRUE, df |-> table]
    /\ npc' = "columns"
    /\ UNCHANGED <<dir, table, csv, warnings, jsonl, ivars, svars, cvars>>

NoDocuments ==
    [exists |-> FALSE, lines |-> <<>>, returned |-> <<>>, path |-> "none",
     outcome |-> "none"]

NoCandidates == [returned |-> FALSE, list |-> <<>>]

\* a field as pd.read_csv reads it: an empty field is a missing value; no
\* column of the snapshot is all numbers or all booleans, so every other
\* field is read as the text it is
CsvCell(field) == IF field = <<>> THEN NaN ELSE S(field)

\* pd.read_csv(UNIFIED_CSV_PATH)
ReadCsv(file) ==
    [columns |-> file.columns,
     rows    |-> [r \in 1..Len(file.rows) |->
                     [c \in 1..Len(file.columns) |-> CsvCell(file.rows[r][c])]]]

METADATA_COLS ==
    <<ticket_id, category, resolved, date, agent_name, resolution, source_file>>

\* str(row[col]).strip()
RowText(df, r, col) == Strip(StrOf(Column(df, col)[r]))

\* the doc built for row r of a table that has the metadata columns
RowDocument(df, r) ==
    [id       |-> RowText(df, r, ticket_id),
     text     |-> RowText(df, r, embedding_text),
     metadata |-> JDict({<<"ticket_id", RowText(df, r, ticket_id)>>,
                         <<"category", RowText(df, r, category)>>,
                         <<"resolved", RowText(df, r, resolved)>>,
                         <<"date", RowText(df, r, date)>>,
                         <<"agent_name", RowText(df, r, agent_name)>>,
                         <<"resolution", RowText(df, r, resolution)>>,
                         <<"source_file", RowText(df, r, source_file)>>,
                         <<"problem", RowText(df, r, embedding_text)>>})]

\* create_documents on a table: the metadata columns that are absent are
\* added with "", then one doc per row
create_documents(df) ==
    LET full == AddMissing(df, METADATA_COLS)
    IN  [r \in 1..Len(full.rows) |-> RowDocument(full, r)]

\* the documents file: one json.dump(doc) line per doc
WriteDocuments(docs, path) ==
    [exists |-> TRUE, lines |-> [i \in 1..Len(docs) |-> JsonLine(docs[i])],
     returned |-> docs, path |-> path, outcome |-> "ok"]

\* prepare_data.py: create_documents(df_unified) on the table unify_tickets
\* returned; the added columns are added to that very table
CreateDocumentsInMemory ==
    /\ npc = "normalized"
    /\ table' = AddMissing(table, METADATA_COLS)
    /\ jsonl' = WriteDocuments(create_documents(table), "memory")
    /\ npc' = "documents"
    /\ UNCHANGED <<dir, csv, first, warnings, ivars, svars, cvars>>

\* create_documents(): the snapshot is read back, or is not there
CreateDocumentsFromCsv ==
    /\ npc \in {"start", "normalized"}
    /\ IF csv.exists
       THEN jsonl' = WriteDocuments(create_documents(ReadCsv(csv)), "csv")
       ELSE jsonl' = [jsonl EXCEPT !.path = "csv", !.outcome = "FileNotFoundError"]
    /\ npc' = IF csv.exists THEN "documents" ELSE npc
    /\ UNCHANGED <<dir, table, csv, first, warnings, ivars, svars, cvars>>

NormIdle ==
    /\ dir = <<>> /\ table = NoTable /\ npc = "idle" /\ csv = NoCsv /\ first = NotYet
    /\ warnings = <<>> /\ jsonl = NoDocuments

ServeIdle == requests = <<>>

CandidatesIdle == similar_tickets = <<>> /\ candidates = NoCandidates

IndexIdle ==
    /\ index = NoIndex /\ ids = <<>> /\ metadata = <<>>
    /\ fs = [index |-> Absent, ids |-> Absent, meta |-> Absent]
    /\ last = NoCall /\ saved = NotSaved

InitNorm ==
    /\ dir \in Directories
    /\ table = NoTable
    /\ npc = "start"
    /\ csv = NoCsv
    /\ first = NotYet
    /\ warnings = <<>>
    /\ jsonl = NoDocuments
    /\ IndexIdle
    /\ ServeIdle
    /\ CandidatesIdle

NextNorm ==
    \/ ReadSources
    \/ NormalizeColumnsStep
    \/ NormalizeTicketIdsStep
    \/ NormalizeDatesStep
    \/ CreateEmbeddingTextStep
    \/ WriteCsv
    \/ Renormalize
    \/ CreateDocumentsInMemory
    \/ CreateDocumentsFromCsv

SpecNorm == InitNorm /\ [][NextNorm]_vars

----------------------------------------------------------------------------
(* The operations of FAISSIndex.                                            *)

\* __init__: a fresh object over the same three paths
Construct ==
    /\ index' = NoIndex
    /\ ids' = <<>>
    /\ metadata' = <<>>
    /\ last' = Call("init", "ok")
    /\ UNCHANGED <<fs, saved, nvars, svars, cvars>>

\* variant of BuildResult: ids and metadata are assigned as soon as the
\* items are prepared, before the texts are encoded
BuildResultAssignEarly(documents, modelFails, ix, idSeq, metaSeq) ==
    LET same == [index |-> ix, ids |-> idSeq, metadata |-> metaSeq]
    IN  IF documents = <<>> THEN same @@ [outcome |-> "ValueError"]
        ELSE LET items == PrepareItems(documents)
                 enc   == EncodeTexts(items.texts, modelFails)
             IN  IF enc.raised # "no"
                 THEN [index |-> ix, ids |-> items.ids, metadata |-> items.metadata,
                       outcome |-> enc.raised]
                 ELSE [index |-> FlatIP(enc.rows), ids |-> items.ids,
                       metadata |-> items.metadata, outcome |-> "ok"]

\* what build() leaves in (index, ids, metadata) and how it ends
BuildResult(documents, modelFails, ix, idSeq, metaSeq) ==
    LET same == [index |-> ix, ids |-> idSeq, metadata |-> metaSeq]
    IN  IF documents = <<>> THEN same @@ [outcome |-> "ValueError"]
        ELSE LET items == PrepareItems(documents)
                 enc   == EncodeTexts(items.texts, modelFails)
             IN  IF enc.raised # "no" THEN same @@ [outcome |-> enc.raised]
                 ELSE [index |-> FlatIP(enc.rows), ids |-> items.ids,
                       metadata |-> items.metadata, outcome |-> "ok"]

Build(documents, modelFails) ==
    \E r \in {BuildResult(documents, modelFails, index, ids, metadata)} :
        /\ index' = r.index
        /\ ids' = r.ids
        /\ metadata' = r.metadata
        /\ last' = [Call("build", r.outcome) EXCEPT !.ndocs = Len(documents)]
        /\ UNCHANGED <<fs, saved, nvars, svars, cvars>>

\* variant of SaveFiles: the ids are not written to ids_path, whose old
\* content stays
SaveFilesStaleIds(ix, idSeq, metaSeq) ==
    [index |-> WriteIndex(ix), ids |-> fs.ids, meta |-> SaveMeta(metaSeq)]

\* the three writes of save()
SaveFiles(ix, idSeq, metaSeq) ==
    [index |-> WriteIndex(ix), ids |-> SaveIds(idSeq), meta |-> SaveMeta(metaSeq)]

Save ==
    IF index.isNone
    THEN /\ last' = Call("save", "RuntimeError")
         /\ UNCHANGED <<index, ids, metadata, fs, saved, nvars, svars, cvars>>
    ELSE /\ fs' = SaveFiles(index, ids, metadata)
         /\ saved' = [valid |-> TRUE, index |-> index, ids |-> ids,
                      metadata |-> metadata]
         /\ last' = Call("save", "ok")
         /\ UNCHANGED <<index, ids, metadata, nvars, svars, cvars>>

\* variant of LoadResult: ids and metadata are emptied before the existence
\* check of the index artifact
LoadResultResetFirst(files, ix, idSeq, metaSeq) ==
    IF ~files.index.exists
    THEN [index |-> ix, ids |-> <<>>, metadata |-> <<>>, outcome |-> "IndexNotFound"]
    ELSE IF ~files.ids.exists
    THEN [index |-> ReadIndex(files.index), ids |-> <<>>, metadata |-> <<>>,
          outcome |-> "IdsUnreadable"]
    ELSE IF ~files.meta.exists
    THEN [index |-> ReadIndex(files.index), ids |-> LoadIds(files.ids),
          metadata |-> <<>>, outcome |-> "MetaUnreadable"]
    ELSE [index |-> ReadIndex(files.index), ids |-> LoadIds(files.ids),
          metadata |-> LoadMeta(files.meta), outcome |-> "ok"]

\* what load() leaves in (index, ids, metadata) and how it ends
LoadResult(files, ix, idSeq, metaSeq) ==
    IF ~files.index.exists
    THEN [index |-> ix, ids |-> idSeq, metadata |-> metaSeq,
          outcome |-> "IndexNotFound"]
    ELSE IF ~files.ids.exists
    THEN [index |-> ReadIndex(files.index), ids |-> idSeq, metadata |-> metaSeq,
          outcome |-> "IdsUnreadable"]
    ELSE IF ~files.meta.exists
    THEN [index |-> ReadIndex(files.index), ids |-> LoadIds(files.ids),
          metadata |-> <<>>, outcome |-> "MetaUnreadable"]
    ELSE [index |-> ReadIndex(files.index), ids |-> LoadIds(files.ids),
          metadata |-> LoadMeta(files.meta), outcome |-> "ok"]

Load ==
    \E r \in {LoadResult(fs, index, ids, metadata)} :
        /\ index' = r.index
        /\ ids' = r.ids
        /\ metadata' = r.metadata
        /\ last' = Call("load", r.outcome)
        /\ UNCHANGED <<fs, saved, nvars, svars, cvars>>

Search(q, k) ==
    \E r \in {SearchOn(index, ids, metadata, q, k)} :
        /\ last' = [Call("search", r.outcome) EXCEPT !.q = q, !.k = k,
                                                     !.results = r.results]
        /\ UNCHANGED <<index, ids, metadata, fs, saved, nvars, svars, cvars>>

InitFiles ==
    {[index |-> i, ids |-> d, meta |-> m] :
        i \in {Absent, WriteIndex(PrevIndex)},
        d \in {Absent, SaveIds(PrevItems.ids)},
        m \in {Absent, SaveMeta(PrevItems.metadata)}}

Init ==
    /\ index = NoIndex
    /\ ids = <<>>
    /\ metadata = <<>>
    /\ fs \in InitFiles
    /\ last = NoCall
    /\ saved = NotSaved
    /\ NormIdle
    /\ ServeIdle
    /\ CandidatesIdle

Next ==
    \/ Construct
    \/ \E documents \in DocLists, modelFails \in BOOLEAN : Build(documents, modelFails)
    \/ Save
    \/ Load
    \/ \E q \in QueryVectors, k \in 1..MaxK : Search(q, k)

Spec == Init /\ [][Next]_vars

----------------------------------------------------------------------------
(* TicketResolutionAssistant: the candidates of a recommendation.          *)

UpperLetters == <<"A", "B", "C", "D", "E", "F", "G", "H", "I", "J", "K", "L", "M", "N", "O", "P", "Q", "R", "S", "T", "U", "V", "W", "X", "Y", "Z">>
LowerLetters == <<"a", "b", "c", "d", "e", "f", "g", "h", "i", "j", "k", "l", "m", "n", "o", "p", "q", "r", "s", "t", "u", "v", "w", "x", "y", "z">>

\* str.lower()
Lower(s) ==
    [i \in 1..Len(s) |->
        IF \E l \in 1..26 : UpperLetters[l] = s[i]
        THEN LowerLetters[CHOOSE l \in 1..26 : UpperLetters[l] = s[i]]
        ELSE s[i]]

\* dict.get(key, default) on a JSON object
MetaGet(meta, key, default) ==
    IF \E p \in meta.kv : p[1] = key
    THEN (CHOOSE p \in meta.kv : p[1] = key)[2]
    ELSE default

\* position of the first c in s, 0 when there is none
FirstIndexOf(s, c) ==
    IF \E i \in 1..Len(s) : s[i] = c
    THEN CHOOSE i \in 1..Len(s) : s[i] = c /\ \A j \in 1..(i - 1) : s[j] # c
    ELSE 0

AllDigits(s) == \A i \in 1..Len(s) : IsDigit(s[i])

Unsigned(s) == IF s # <<>> /\ Head(s) \in {"+", "-"} THEN Tail(s) ELSE s

\* float(s) of a trimmed lower-case string: whether it parses and whether the
\* number is zero. Accepted are an optional sign followed by "inf",
\* "infinity", "nan" or a decimal numeral with an optional exponent (digit
\* group underscores are not among the values drawn, and no exponent is large
\* enough to overflow or underflow).
FloatOf(s) ==
    LET u    == Unsigned(s)
        e    == FirstIndexOf(u, "e")
        mant == IF e = 0 THEN u ELSE SubSeq(u, 1, e - 1)
        expo == IF e = 0 THEN <<>> ELSE Unsigned(SubSeq(u, e + 1, Len(u)))
        dot  == FirstIndexOf(mant, ".")
        ip   == IF dot = 0 THEN mant ELSE SubSeq(mant, 1, dot - 1)
        fp   == IF dot = 0 THEN <<>> ELSE SubSeq(mant, dot + 1, Len(mant))
    IN  IF u \in {<<"i", "n", "f">>, <<"i", "n", "f", "i", "n", "i", "t", "y">>, <<"n", "a", "n">>}
        THEN [ok |-> TRUE, zero |-> FALSE]
        ELSE IF /\ AllDigits(ip) /\ AllDigits(fp) /\ (ip # <<>> \/ fp # <<>>)
                /\ (e = 0 \/ (expo # <<>> /\ AllDigits(expo)))
        THEN [ok |-> TRUE, zero |-> \A i \in 1..Len(ip \o fp) : (ip \o fp)[i] = "0"]
        ELSE [ok |-> FALSE, zero |-> FALSE]

\* _parse_resolved: "True", "False" or "None"
parse_resolved(value) ==
    IF value = <<>> THEN "None"
    ELSE LET s == Lower(Strip(value))
         IN  IF s = <<"t", "r", "u", "e">> THEN "True"
             ELSE IF s = <<"f", "a", "l", "s", "e">> THEN "False"
             ELSE IF FloatOf(s).ok
                  THEN IF FloatOf(s).zero THEN "False" ELSE "True"
                  ELSE "None"

\* the number a run of digits spells
RECURSIVE DigitsToInt(_)
DigitsToInt(s) ==
    IF s = <<>> THEN 0
    ELSE 10 * DigitsToInt(SubSeq(s, 1, Len(s) - 1))
         + ((CHOOSE d \in 1..10 : Digits[d] = s[Len(s)]) - 1)

DaysIn(month, year) ==
    IF month \in {4, 6, 9, 11} THEN 30
    ELSE IF month # 2 THEN 31
    ELSE IF year % 4 = 0 /\ (year % 100 # 0 \/ year % 400 = 0) THEN 29 ELSE 28

NoDate == [isNone |-> TRUE, month |-> 0, day |-> 0, year |-> 0]

\* _parse_date: datetime.strptime(date_str, "%m/%d/%Y"), None when the string
\* is empty or is no such date
parse_date(date_str) ==
    LET a  == FirstIndexOf(date_str, "/")
        r  == IF a = 0 THEN <<>> ELSE SubSeq(date_str, a + 1, Len(date_str))
        b  == FirstIndexOf(r, "/")
        mm == IF a = 0 THEN <<>> ELSE SubSeq(date_str, 1, a - 1)
        dd == IF b = 0 THEN <<>> ELSE SubSeq(r, 1, b - 1)
        yy == IF b = 0 THEN <<>> ELSE SubSeq(r, b + 1, Len(r))
    IN  IF /\ Len(mm) \in {1, 2} /\ AllDigits(mm)
           /\ Len(dd) \in {1, 2} /\ AllDigits(dd)
           /\ Len(yy) = 4 /\ AllDigits(yy)
           /\ DigitsToInt(mm) \in 1..12
           /\ DigitsToInt(yy) >= 1
           /\ DigitsToInt(dd) \in 1..DaysIn(DigitsToInt(mm), DigitsToInt(yy))
        THEN [isNone |-> FALSE, month |-> DigitsToInt(mm), day |-> DigitsToInt(dd),
              year |-> DigitsToInt(yy)]
        ELSE NoDate

\* the dict built for one hit in the loop of _prepare_candidates
Candidate(ticket) ==
    LET meta == ticket.metadata
    IN  [ticket_id   |-> MetaGet(meta, "ticket_id", ticket.id),
         problem     |-> MetaGet(meta, "problem", <<>>),
         resolution  |-> MetaGet(meta, "resolution", <<>>),
         date        |-> MetaGet(meta, "date", <<>>),
         agent_name  |-> MetaGet(meta, "agent_name", <<>>),
         category    |-> MetaGet(meta, "category", <<>>),
         resolved    |-> parse_resolved(MetaGet(meta, "resolved", <<>>)),
         score       |-> ticket.score,
         parsed_date |-> parse_date(MetaGet(meta, "date", <<>>))]

\* variant of InsertByScore: the new element goes before its equals
RECURSIVE InsertBeforeEquals(_, _)
InsertBeforeEquals(sorted, x) ==
    IF sorted = <<>> THEN <<x>>
    ELSE IF Head(sorted).score > x.score
         THEN <<Head(sorted)>> \o InsertBeforeEquals(Tail(sorted), x)
         ELSE <<x>> \o sorted

RECURSIVE SortTiesReversed(_)
SortTiesReversed(results) ==
    IF results = <<>> THEN <<>>
    ELSE InsertBeforeEquals(SortTiesReversed(SubSeq(results, 1, Len(results) - 1)),
                            results[Len(results)])

\* variant of prepare_candidates: the sort puts equal scores in reverse order
prepare_candidates_ties_reversed(tickets) ==
    SortTiesReversed([i \in 1..Len(tickets) |-> Candidate(tickets[i])])

\* _prepare_candidates: one dict per hit, then
\* candidates.sort(key=score, reverse=True)
prepare_candidates(tickets) ==
    SortByScoreDesc([i \in 1..Len(tickets) |-> Candidate(tickets[i])])

\* the resolved values stored in the metadata the hits carry; the last pair
\* of a hit is the date
StoredValues ==
    { <<<<"T", "C", "K", "T", "-", "1">>, <<"t", "r", "u", "e">>, <<"2", "0", "2", "4", "-", "0", "1", "-", "0", "5">>>>,
      <<<<"T", "C", "K", "T", "-", "2">>, <<"T", "R", "U", "E">>, <<"0", "1", "/", "0", "5", "/", "2", "0", "2", "4">>>>,
      <<<<"T", "C", "K", "T", "-", "3">>, <<" ", "F", "a", "l", "s", "e", " ">>, <<"0", "2", "/", "3", "0", "/", "2", "0", "2", "4">>>>,
      <<<<"T", "C", "K", "T", "-", "4">>, <<"1">>, <<>> >>,
      <<<<"T", "C", "K", "T", "-", "5">>, <<"0">>, <<>> >>,
      <<<<"T", "C", "K", "T", "-", "6">>, <<"0", ".", "0">>, <<>> >>,
      <<<<"T", "C", "K", "T", "-", "7">>, <<"-", "2">>, <<>> >>,
      <<<<"T", "C", "K", "T", "-", "8">>, <<>>, <<>> >>,
      <<<<"T", "C", "K", "T", "-", "9">>, <<"m", "a", "y", "b", "e">>, <<>> >>,
      <<<<"T", "C", "K", "T", "-", "1", "0">>, <<"n", "a", "n">>, <<>> >>,
      <<<<"T", "C", "K", "T", "-", "1", "1">>, <<"i", "n", "f">>, <<>> >> }

Scores == {15, 25}

\* hits as search() returns them: id, score and the metadata object; one hit
\* whose metadata is the empty object
HitPool ==
    {[id |-> v[1], score |-> s,
      metadata |-> JDict({<<"ticket_id", v[1]>>, <<"resolved", v[2]>>, <<"date", v[3]>>})] :
        v \in StoredValues, s \in Scores}
    \cup {[id |-> <<"T", "0">>, score |-> s, metadata |-> EmptyDict] : s \in Scores}

PrepareCandidates ==
    /\ ~candidates.returned
    /\ candidates' = [returned |-> TRUE, list |-> prepare_candidates(similar_tickets)]
    /\ UNCHANGED <<similar_tickets, ivars, nvars, svars>>

InitCandidates ==
    /\ similar_tickets \in SeqsUpTo(HitPool, MaxHits)
    /\ candidates = NoCandidates
    /\ IndexIdle
    /\ NormIdle
    /\ ServeIdle

NextCandidates == PrepareCandidates

SpecCandidates == InitCandidates /\ [][NextCandidates]_vars

----------------------------------------------------------------------------
(* The server: requests in flight over the one loaded FAISSIndex.  Results *)
(* hold the metadata objects of the index themselves, not copies: a result *)
(* carries the position of its object in FAISSIndex.metadata, and whoever  *)
(* reads it reads the object as it is then.                                 *)

Requesters == {"r1", "r2"}

NoRequest ==
    [kind |-> "none", q |-> <<0, 0>>, k |-> 0, pc |-> "idle", outcome |-> "none",
     hits |-> <<>>, results |-> <<>>, candidates |-> <<>>]

NewRequest(kind, q, k) ==
    [NoRequest EXCEPT !.kind = kind, !.q = q, !.k = k, !.pc = "start"]

\* the objects of FAISSIndex.metadata by position
MetadataObjects(metaSeq) == [i \in 1..Len(metaSeq) |-> i]

\* a result with its metadata object read
Deref(result, metaSeq) == [result EXCEPT !.metadata = metaSeq[@]]

DerefAll(results, metaSeq) ==
    [i \in 1..Len(results) |-> Deref(results[i], metaSeq)]

\* variant of CandidateObject: the candidate is the metadata object of its
\* hit, not a dict of its own
CandidateObjectShared(result) == result.metadata

\* the object a candidate is: candidate = {...} is a dict of its own (0),
\* never one of the metadata objects
CandidateObject(result) == 0

\* the two badge texts, the first up to its dash
AttemptedBadge == S(<<"A", "t", "t", "e", "m", "p", "t", "e", "d", " ", "(", "N", "o", "t", " ", "C", "o", "n", "f", "i", "r", "m", "e", "d", ")">>)
UnknownBadge == S(<<"U", "n", "k", "n", "o", "w", "n", " ", "r", "e", "s", "o", "l", "u", "t", "i", "o", "n", " ", "s", "t", "a", "t", "u", "s", ".">>)

\* _get_status_badge
get_status_badge(resolved_flag) ==
    IF resolved_flag = "True" THEN JNull
    ELSE IF resolved_flag = "False" THEN AttemptedBadge
    ELSE UnknownBadge

\* candidate["_badge"] = ...
WithBadge(c) == c @@ [badge |-> get_status_badge(c.resolved)]

\* _prepare_candidates on results that hold metadata objects
ServeCandidates(results, metaSeq) ==
    SortByScoreDesc([i \in 1..Len(results) |->
        Candidate(Deref(results[i], metaSeq))
            @@ [object |-> CandidateObject(results[i])]])

\* FAISSIndex.metadata after the badge loop over these candidates
BadgesWritten(metaSeq, cands) ==
    [i \in 1..Len(metaSeq) |->
        IF \E c \in 1..Len(cands) : cands[c].object = i
        THEN JDict(metaSeq[i].kv \cup
                   {<<"_badge", get_status_badge(cands[c].resolved)>> :
                       c \in {d \in 1..Len(cands) : cands[d].object = i}})
        ELSE metaSeq[i]]

\* faiss_index.query: the query is embedded and the index searched
QueryStep(r) ==
    /\ requests[r].pc = "start"
    /\ IF index.isNone
       THEN requests' = [requests EXCEPT ![r].pc = "done",
                                         ![r].outcome = "RuntimeError"]
       ELSE requests' = [requests EXCEPT
                ![r].pc = "loop",
                ![r].hits = FaissSearch(index, requests[r].q, requests[r].k)]
    /\ UNCHANGED <<ivars, nvars, cvars>>

\* the loop of search() over the hits
LoopStep(r) ==
    /\ requests[r].pc = "loop"
    /\ \E looped \in {SearchLoop(requests[r].hits, ids, MetadataObjects(metadata))} :
          IF looped.raised
          THEN requests' = [requests EXCEPT ![r].pc = "done",
                                            ![r].outcome = "IndexError"]
          ELSE requests' = [requests EXCEPT ![r].pc = "sort",
                                            ![r].results = looped.results]
    /\ UNCHANGED <<ivars, nvars, cvars>>

\* results.sort(...) and the return to the handler
SortStep(r) ==
    /\ requests[r].pc = "sort"
    /\ requests' = [requests EXCEPT
          ![r].results = SortByScoreDesc(requests[r].results),
          ![r].pc = IF requests[r].kind = "search" THEN "respond" ELSE "prepare"]
    /\ UNCHANGED <<ivars, nvars, cvars>>

\* /search: the response is built from the results
RespondStep(r) ==
    /\ requests[r].pc = "respond"
    /\ requests' = [requests EXCEPT
          ![r].results = DerefAll(requests[r].results, metadata),
          ![r].outcome = "ok",
          ![r].pc = "done"]
    /\ UNCHANGED <<ivars, nvars, cvars>>

\* /recommend: generate_recommendation up to the reply of the text generator
PrepareStep(r) ==
    /\ requests[r].pc = "prepare"
    /\ requests' = [requests EXCEPT
          ![r].candidates = ServeCandidates(requests[r].results, metadata),
          ![r].pc = "badge"]
    /\ UNCHANGED <<ivars, nvars, cvars>>

\* /recommend: the badge loop and the response
BadgeStep(r) ==
    /\ requests[r].pc = "badge"
    /\ metadata' = BadgesWritten(metadata, requests[r].candidates)
    /\ requests' = [requests EXCEPT
          ![r].candidates = [c \in 1..Len(requests[r].candidates) |->
                                WithBadge(requests[r].candidates[c])],
          ![r].results = DerefAll(requests[r].results, metadata),
          ![r].outcome = "ok",
          ![r].pc = "done"]
    /\ UNCHANGED <<index, ids, fs, last, saved, nvars, cvars>>

\* startup_event: the index a build_index.py run saved is loaded
InitServe ==
    /\ \E documents \in DocLists :
          LET b == BuildResult(documents, FALSE, NoIndex, <<>>, <<>>)
              l == LoadResult(SaveFiles(b.index, b.ids, b.metadata),
                              NoIndex, <<>>, <<>>)
          IN  /\ b.outcome = "ok"
              /\ fs = SaveFiles(b.index, b.ids, b.metadata)
              /\ index = l.index /\ ids = l.ids /\ metadata = l.metadata
              /\ last = Call("load", l.outcome)
              /\ saved = [valid |-> TRUE, index |-> b.index, ids |-> b.ids,
                          metadata |-> b.metadata]
    /\ requests \in [Requesters ->
                         {NewRequest(kind, q, k) : kind \in {"search", "recommend"},
                                                  q \in QueryVectors, k \in 1..MaxK}]
    /\ NormIdle
    /\ CandidatesIdle

NextServe ==
    \E r \in Requesters :
        \/ QueryStep(r)
        \/ LoopStep(r)
        \/ SortStep(r)
        \/ RespondStep(r)
        \/ PrepareStep(r)
        \/ BadgeStep(r)

SpecServe == InitServe /\ [][NextServe]_vars

----------------------------------------------------------------------------
(* Properties of the vector index.                                          *)

\* C1: in every reachable state the index's vector count, len(ids) and
\* len(metadata) are equal (an object without an index counts zero vectors).
C1_ParallelSequences ==
    /\ ntotal(index) = Len(ids)
    /\ Len(ids) = Len(metadata)

NonIncreasing(results) ==
    \A j \in 1..(Len(results) - 1) : results[j].score >= results[j + 1].score

\* the ok-results of search(), as (id, score) pairs
Ranked(r) == [j \in 1..Len(r.results) |-> <<r.results[j].id, r.results[j].score>>]

C3_SearchBounded ==
    ~index.isNone =>
        \A q \in QueryVectors, k \in 1..MaxK :
            LET r    == SearchOn(index, ids, metadata, q, k)
                hits == FaissSearch(index, q, k)
                real == {j \in 1..Len(hits) : hits[j].idx >= 0}
            IN  /\ r.outcome \in {"ok", "IndexError"}
                /\ r.outcome = "ok" =>
                      /\ Len(r.results) <= k
                      /\ Len(r.results) <= Cardinality(real)
                      /\ \A j \in 1..Len(r.results) : r.results[j].score # NegInf
                      /\ NonIncreasing(r.results)
                /\ r.outcome = "IndexError" =>
                      \E j \in real : hits[j].idx < Len(ids)
                                         /\ hits[j].idx >= Len(metadata)

\* a search asked for more neighbours than the index holds and returned
C3_Witness ==
    /\ last.op = "search" /\ last.outcome = "ok"
    /\ last.k > ntotal(index)
    /\ Len(last.results) >= 1
    /\ Len(last.results) < last.k

\* C4: on an object whose index holds N vectors, search(query, k) returns
\* exactly min(k, N) results, and the j-th result carries the id and the
\* metadata stored at the position of the j-th ranked neighbour.
C4_ExactCount ==
    ~index.isNone =>
        \A q \in QueryVectors, k \in 1..MaxK :
            LET r    == SearchOn(index, ids, metadata, q, k)
                hits == FaissSearch(index, q, k)
            IN  /\ r.outcome = "ok"
                /\ Len(r.results) = Min(k, ntotal(index))
                /\ \A j \in 1..Len(r.results) :
                      /\ r.results[j].id = ids[hits[j].idx + 1]
                      /\ r.results[j].metadata = metadata[hits[j].idx + 1]
                      /\ r.results[j].score = hits[j].score

\* C5: a load() called while the index artifact is absent ends with the
\* index-not-found error and leaves index, ids and metadata as they were,
\* whether or not the ids and metadata artifacts exist.
C5_LoadIndexAbsent ==
    [][(Load /\ ~fs.index.exists) =>
          /\ last'.outcome = "IndexNotFound"
          /\ index' = index /\ ids' = ids /\ metadata' = metadata]_vars

\* load() has failed for the missing index artifact on a built object while
\* the ids artifact was there
C5_Witness ==
    /\ last.op = "load" /\ last.outcome = "IndexNotFound"
    /\ ~fs.index.exists /\ fs.ids.exists /\ ~fs.meta.exists
    /\ ~index.isNone /\ Len(ids) >= 1

\* a string is non-empty after trimming: it has a character that is no space
HasContent(s) == \E i \in 1..Len(s) : s[i] \notin Whitespace

SurvivesFilter(doc) ==
    /\ "id" \in DOMAIN doc /\ HasContent(doc.id)
    /\ "text" \in DOMAIN doc /\ HasContent(doc.text)

MetaOf(doc) ==
    IF "metadata" \in DOMAIN doc /\ doc.metadata.t = "dict" /\ doc.metadata.kv # {}
    THEN doc.metadata ELSE EmptyDict

\* C6: a build() that ends well indexes exactly the documents whose id and
\* text are non-empty after trimming, in document order, with ids, vectors
\* and metadata taken from the same documents; a build() over documents none
\* of which survives (an empty file included) ends in an error and leaves
\* index, ids and metadata as they were. Stated of build() called in any
\* reachable state on any documents file.
C6_BuildFilters ==
    \A documents \in DocLists, modelFails \in BOOLEAN :
        LET r    == BuildResult(documents, modelFails, index, ids, metadata)
            kept == SelectSeq(documents, SurvivesFilter)
        IN  /\ kept = <<>> =>
                  /\ r.outcome # "ok"
                  /\ r.index = index /\ r.ids = ids /\ r.metadata = metadata
            /\ (kept # <<>> /\ ~modelFails) =>
                  /\ r.outcome = "ok"
                  /\ r.ids = [i \in 1..Len(kept) |-> Strip(kept[i].id)]
                  /\ r.metadata = [i \in 1..Len(kept) |-> MetaOf(kept[i])]
                  /\ r.index = FlatIP([i \in 1..Len(kept) |->
                                           ModelEncode(Strip(kept[i].text))])

\* build() has failed over a non-empty documents file with no survivor,
\* called on an object that already held an index
C6_Witness ==
    /\ last.op = "build" /\ last.outcome = "ValueError"
    /\ last.ndocs > 0
    /\ ~index.isNone

\* C16: a load() that fails, for whatever reason, leaves index, ids and
\* metadata as they were before the call.
C16_FailedLoadUnchanged ==
    [][(Load /\ last'.outcome # "ok") =>
          index' = index /\ ids' = ids /\ metadata' = metadata]_vars

\* the step is a build() that failed (or no step at all)
FailedBuild == last'.op = "build" /\ last'.outcome # "ok"

\* C17: a build() that fails - no documents, no document surviving the
\* filter, or an embedding error - leaves index, ids and metadata as they
\* were: an object without an index still has none, so that save() and
\* search() still raise, and an object with an index still holds that index
\* with its ids and metadata.
C17_FailedBuildUnchanged ==
    [][FailedBuild =>
          /\ last'.outcome \in {"ValueError", "EmbeddingError"}
          /\ index' = index /\ ids' = ids /\ metadata' = metadata
          /\ index.isNone =>
                /\ index'.isNone
                /\ \A q \in QueryVectors, k \in 1..MaxK :
                      SearchOn(index', ids', metadata', q, k).outcome = "RuntimeError"
          /\ ~index.isNone => ~index'.isNone]_vars

\* build() has failed in the embedding model on an object that holds an
\* index with its ids
C17_Witness ==
    /\ last.op = "build" /\ last.outcome = "EmbeddingError"
    /\ ~index.isNone /\ Len(ids) >= 1 /\ Len(ids) = Len(metadata)

\* a candidate as the response carries it
Handed(c) == [x \in DOMAIN c \ {"object"} |-> c[x]]

\* every answered request holds what the same request gets from the index
\* as it was loaded, when it is the only one
AnsweredAsAlone ==
    \A r \in Requesters :
        requests[r].pc = "done" =>
            LET alone == SearchOn(saved.index, saved.ids, saved.metadata,
                                  requests[r].q, requests[r].k)
            IN  /\ requests[r].outcome = alone.outcome
                /\ requests[r].outcome = "ok" =>
                      /\ requests[r].results = alone.results
                      /\ requests[r].kind = "recommend" =>
                            [c \in 1..Len(requests[r].candidates) |->
                                Handed(requests[r].candidates[c])]
                            = [c \in 1..Len(alone.results) |->
                                  WithBadge(prepare_candidates(alone.results)[c])]

\* C15: whatever the interleaving of the requests over the one loaded
\* index, no step of a search or of a recommendation's candidate assembly
\* changes the index, the ids or the metadata (its objects included): they
\* are what startup loaded, and every request is answered as it would be
\* alone.
C15_QueriesReadOnly ==
    /\ index = saved.index /\ ids = saved.ids /\ metadata = saved.metadata
    /\ AnsweredAsAlone

\* a recommendation has been answered with a badge on its candidates while
\* a search holds results over the same metadata objects
C15_Witness ==
    /\ requests["r1"].pc = "done" /\ requests["r1"].kind = "recommend"
    /\ Len(requests["r1"].candidates) >= 2
    /\ requests["r1"].candidates[1].badge # requests["r1"].candidates[2].badge
    /\ requests["r2"].pc = "respond" /\ requests["r2"].kind = "search"
    /\ Len(requests["r2"].results) >= 1

----------------------------------------------------------------------------
(* Properties of the normalizer.                                            *)

\* s[i..j] is the first maximal run of digits of s
IsFirstMaximalRun(s, i, j) ==
    /\ 1 <= i /\ i <= j /\ j <= Len(s)
    /\ \A x \in i..j : IsDigit(s[x])
    /\ \A x \in 1..(i - 1) : ~IsDigit(s[x])
    /\ j < Len(s) => ~IsDigit(s[j + 1])

HasDigit(s) == \E x \in 1..Len(s) : IsDigit(s[x])

\* the raw ID of a row as a string: a missing value is the empty string
RawIdString(v) == IF IsNa(v) THEN <<>> ELSE StrOf(v)

\* the step taken is the ID normalization
IdStep == npc = "ids" /\ npc' = "dates"

OldId(r) == RawIdString(Column(table, ticket_id)[r])
NewId(r) == Column(table, ticket_id)'[r].s

\* C7: the ID normalization gives every row "TCKT-" followed by the first
\* maximal run of digits of its stringified raw ID when there is one -
\* "Ticket #4412-b" gives "TCKT-4412" - and otherwise "TCKT-" followed by
\* 100000 plus the row's zero-based position; the result is never empty.
C7_TicketIdScheme ==
    [][IdStep =>
          /\ Len(table'.rows) = Len(table.rows)
          /\ \A r \in 1..Len(table.rows) :
                /\ NewId(r) # <<>>
                /\ HasDigit(OldId(r)) =>
                      \E i, j \in 1..Len(OldId(r)) :
                          /\ IsFirstMaximalRun(OldId(r), i, j)
                          /\ NewId(r) = TCKT \o SubSeq(OldId(r), i, j)
                /\ ~HasDigit(OldId(r)) =>
                      NewId(r) = TCKT \o IntToStr(100000 + (r - 1))
                /\ OldId(r) = <<"T", "i", "c", "k", "e", "t", " ", "#", "4", "4", "1", "2", "-", "b">> => NewId(r) = <<"T", "C", "K", "T", "-", "4", "4", "1", "2">>]_vars

\* the IDs of a table with "Ticket #4412-b" and a row without digits are
\* normalized
C7_Witness ==
    /\ npc = "dates" /\ ~first.valid
    /\ \E r \in 1..Len(table.rows) : Column(table, ticket_id)[r] = S(<<"T", "C", "K", "T", "-", "4", "4", "1", "2">>)
    /\ \E r \in 1..Len(table.rows) : Column(table, ticket_id)[r] = S(<<"T", "C", "K", "T", "-", "1", "0", "0", "0", "0", "1">>)

\* C8 as claimed: a row whose raw ID has no digits gets an ID that no other
\* row of the table gets.
C8_FallbackUnique ==
    [][IdStep =>
          \A r, o \in 1..Len(table.rows) :
              (~HasDigit(OldId(r)) /\ o # r) => NewId(o) # NewId(r)]_vars

\* C8 as amended: the fallback ID is a function of the position alone, and
\* no other row that also lacks digits gets it.
C8_FallbackUniqueAmongFallbacks ==
    [][IdStep =>
          \A r, o \in 1..Len(table.rows) :
              ~HasDigit(OldId(r)) =>
                  /\ NewId(r) = TCKT \o IntToStr(100000 + (r - 1))
                  /\ (~HasDigit(OldId(o)) /\ o # r) => NewId(o) # NewId(r)]_vars

\* two rows without digits have been given their fallback IDs
C8_Witness ==
    /\ npc = "dates" /\ ~first.valid
    /\ \E r, o \in 1..Len(table.rows) :
          /\ r < o
          /\ Column(table, ticket_id)[r] = S(TCKT \o IntToStr(100000 + (r - 1)))
          /\ Column(table, ticket_id)[o] = S(TCKT \o IntToStr(100000 + (o - 1)))

\* the second run of the four steps is complete
Renormalized == first.valid /\ npc \in {"csv", "normalized"}

\* C9: the four steps applied to their own output give the same column
\* names, and for every row the same ticket_id, date and embedding_text.
C9_Idempotent ==
    Renormalized =>
        /\ table.columns = first.df.columns
        /\ Len(table.rows) = Len(first.df.rows)
        /\ Column(table, ticket_id) = Column(first.df, ticket_id)
        /\ Column(table, date) = Column(first.df, date)
        /\ Column(table, embedding_text) = Column(first.df, embedding_text)

\* a table with a digit-derived ID, a fallback ID and a parsed date has gone
\* through the steps twice
C9_Witness ==
    /\ Renormalized
    /\ \E r \in 1..Len(table.rows) : Column(table, ticket_id)[r] = S(<<"T", "C", "K", "T", "-", "4", "4", "1", "2">>)
    /\ \E r \in 1..Len(table.rows) : Column(table, ticket_id)[r] = S(<<"T", "C", "K", "T", "-", "1", "0", "0", "0", "0", "1">>)
    /\ \E r \in 1..Len(table.rows) : Column(table, date)[r] = S(<<"2", "0", "2", "4", "-", "0", "1", "-", "0", "5">>)

\* the source tables of the directory, as read
Sources == ReadAll(dir)

\* no source table has a column that is renamed to col
MissingFromSources(col) ==
    \A f \in 1..Len(Sources) :
        \A c \in 1..Len(Sources[f].columns) : NormalizeName(Sources[f].columns[c]) # col

RECURSIVE TotalRows(_)
TotalRows(dataframes) ==
    IF dataframes = <<>> THEN 0
    ELSE Len(Head(dataframes).rows) + TotalRows(Tail(dataframes))

AlwaysPresent ==
    {ticket_id, issue, description, resolution, category, resolved, date, source_file}

RequiredSet == {REQUIRED_COLUMNS[c] : c \in 1..Len(REQUIRED_COLUMNS)}

FirstRunDone == ~first.valid /\ npc \in {"csv", "normalized"}

\* C10 as claimed: after normalization every required column that no source
\* had holds the empty string in every row.
C10_MissingColumnsEmpty ==
    FirstRunDone =>
        \A col \in RequiredSet :
            MissingFromSources(col) =>
                \A r \in 1..Len(table.rows) : Column(table, col)[r] = EmptyStr

\* C10 as amended: ingestion fails only when no file gave a table; after
\* normalization the eight columns are there, no row is dropped, a required
\* column that no source had holds the empty string in every row, except
\* ticket_id, which holds the position fallback ID.
C10_MissingColumnsFilled ==
    /\ npc = "FileNotFoundError" => Sources = <<>>
    /\ FirstRunDone =>
          /\ \A col \in AlwaysPresent : HasColumn(table, col)
          /\ Len(table.rows) = TotalRows(Sources)
          /\ \A col \in RequiredSet :
                MissingFromSources(col) =>
                    \A r \in 1..Len(table.rows) :
                        Column(table, col)[r] =
                            IF col = ticket_id
                            THEN S(TCKT \o IntToStr(100000 + (r - 1)))
                            ELSE EmptyStr

\* sources without resolution and without ticket_id have been normalized
C10_Witness ==
    /\ FirstRunDone
    /\ Len(table.rows) >= 2
    /\ MissingFromSources(resolution)
    /\ MissingFromSources(ticket_id)

\* a regular file whose suffix, whatever its case, is one of the four
TabularFile(f) ==
    f.isFile /\ f.suffix \in {".csv", ".CSV", ".xlsx", ".xls", ".json"}

\* the files that give a table, and the rows of the combined table by origin
Yielding == SelectSeq(dir, LAMBDA f : TabularFile(f) /\ f.parses)

RECURSIVE Origins(_)
Origins(files) ==
    IF files = <<>> THEN <<>>
    ELSE [k \in 1..Len(Head(files).rows) |-> [file |-> Head(files), row |-> k]]
             \o Origins(Tail(files))

NamesOf(files) == [i \in 1..Len(files) |-> files[i].name]

\* the loop over the directory is over
SourcesRead == npc # "start"

\* no file stops the batch, the rows of every file that gives a table are in
\* the combined table in directory order, each under its file's name, and
\* the error is raised exactly when no file gave a table
BatchCombined ==
    /\ npc = "FileNotFoundError" <=> Yielding = <<>>
    /\ npc # "FileNotFoundError" =>
          /\ Len(table.rows) = Len(Origins(Yielding))
          /\ \A r \in 1..Len(table.rows) :
                Column(table, source_file)[r] = S(Origins(Yielding)[r].file.name)
    /\ npc = "columns" /\ ~first.valid =>
          \A r \in 1..Len(table.rows) :
              LET o == Origins(Yielding)[r]
              IN  \A c \in 1..Len(o.file.columns) :
                      Column(table, o.file.columns[c])[r] = o.file.rows[o.row][c]

\* C11 as claimed: every regular file of the directory is processed; one
\* that cannot be parsed or has an unsupported extension is skipped with a
\* recorded warning and never stops the batch; the rows of the other files
\* are in the table under their file name; the no-readable-source error is
\* raised exactly when no file gave a table.
C11_SkippedWithWarning ==
    SourcesRead =>
        /\ warnings = NamesOf(SelectSeq(dir, LAMBDA f :
                           f.isFile /\ ~(TabularFile(f) /\ f.parses)))
        /\ BatchCombined

\* C11 as amended: a warning is recorded for exactly the files with a
\* supported extension that cannot be parsed; a file with an unsupported
\* extension is skipped without one; the rest as claimed.
C11_SkippedParseWarned ==
    SourcesRead =>
        /\ warnings = NamesOf(SelectSeq(dir, LAMBDA f :
                           TabularFile(f) /\ ~f.parses))
        /\ BatchCombined

\* an unparseable file came first, was warned about, and the table holds the
\* rows of the file after it
C11_Witness ==
    /\ npc = "columns" /\ ~first.valid
    /\ Len(dir) >= 2 /\ ~dir[1].parses /\ dir[1].isFile
    /\ warnings = <<dir[1].name>>
    /\ Len(table.rows) >= 1

----------------------------------------------------------------------------
(* Properties of the documents.                                             *)

\* create_documents has returned
DocumentsMade == jsonl.outcome = "ok"

\* the table create_documents worked on
Consumed == IF jsonl.path = "csv" THEN ReadCsv(csv) ELSE table

MetadataColumns ==
    {<<"ticket_id", ticket_id>>, <<"category", category>>, <<"resolved", resolved>>,
     <<"date", date>>, <<"agent_name", agent_name>>, <<"resolution", resolution>>,
     <<"source_file", source_file>>, <<"problem", embedding_text>>}

\* the row has no value in the column
MissingIn(df, r, col) == ~HasColumn(df, col) \/ IsNa(Column(df, col)[r])

\* C14: the documents are one per row of the table in row order, with the
\* row's ticket_id as id and its embedding_text as text, every metadata
\* field whose value is missing for the row is the empty string, and the
\* documents file holds the same documents, one per line, in that order.
C14_DocumentPerRow ==
    DocumentsMade =>
        /\ Len(jsonl.returned) = Len(Consumed.rows)
        /\ \A r \in 1..Len(jsonl.returned) :
              /\ jsonl.returned[r].id = StrOf(Column(Consumed, ticket_id)[r])
              /\ jsonl.returned[r].text = StrOf(Column(Consumed, embedding_text)[r])
              /\ \A m \in MetadataColumns :
                    MissingIn(Consumed, r, m[2]) =>
                        MetaGet(jsonl.returned[r].metadata, m[1], <<"?">>) = <<>>
        /\ Len(jsonl.lines) = Len(jsonl.returned)
        /\ \A r \in 1..Len(jsonl.lines) : JsonLoads(jsonl.lines[r]) = jsonl.returned[r]

\* C18: whichever way create_documents got its table, the documents are the
\* ones both ways give: from the table in memory and from the snapshot read
\* back.
C18_SamePaths ==
    DocumentsMade =>
        /\ jsonl.returned = create_documents(table)
        /\ jsonl.returned = create_documents(ReadCsv(csv))

----------------------------------------------------------------------------
(* Properties of the candidates.                                            *)

\* the resolved value stored with a hit
StoredResolved(ticket) == MetaGet(ticket.metadata, "resolved", <<>>)

\* a numeral: an optional sign, digits, and optionally a point and digits
IsNumeral(s) ==
    LET u   == Unsigned(s)
        dot == FirstIndexOf(u, ".")
        ip  == IF dot = 0 THEN u ELSE SubSeq(u, 1, dot - 1)
        fp  == IF dot = 0 THEN <<>> ELSE SubSeq(u, dot + 1, Len(u))
    IN  ip # <<>> /\ AllDigits(ip) /\ AllDigits(fp)

NumeralIsZero(s) == \A i \in 1..Len(s) : s[i] \in {"0", ".", "+", "-"}

\* the tri-state value the claim gives a stored value, read without its
\* surrounding blanks
ClaimedResolved(value) ==
    LET s == Strip(value)
    IN  IF Lower(s) = <<"t", "r", "u", "e">> THEN "True"
        ELSE IF Lower(s) = <<"f", "a", "l", "s", "e">> THEN "False"
        ELSE IF IsNumeral(s) THEN (IF NumeralIsZero(s) THEN "False" ELSE "True")
        ELSE "None"

\* C12: every hit's stored resolved value is mapped to a tri-state value and
\* never raises: "true"/"false" in any letter case give True/False, a numeral
\* gives False for zero and True otherwise, every other text (the empty
\* string, "maybe", any text that is neither a boolean nor a number) gives
\* None.
C12_TriState ==
    candidates.returned =>
        \A i \in 1..Len(similar_tickets) :
            \E j \in 1..Len(candidates.list) :
                /\ candidates.list[j].ticket_id =
                       MetaGet(similar_tickets[i].metadata, "ticket_id",
                               similar_tickets[i].id)
                /\ candidates.list[j].resolved =
                       ClaimedResolved(StoredResolved(similar_tickets[i]))

\* the one-to-one maps of 1..n
Orderings(n) ==
    {f \in [1..n -> 1..n] : \A a, b \in 1..n : a # b => f[a] # f[b]}

\* C13: the candidates returned are one per hit, in descending order of
\* score, and candidates of equal score are in the order of their hits.
C13_StableDescending ==
    candidates.returned =>
        /\ Len(candidates.list) = Len(similar_tickets)
        /\ NonIncreasing(candidates.list)
        /\ \E f \in Orderings(Len(similar_tickets)) :
              /\ \A j \in 1..Len(candidates.list) :
                    /\ candidates.list[j].score = similar_tickets[f[j]].score
                    /\ candidates.list[j].ticket_id =
                           MetaGet(similar_tickets[f[j]].metadata, "ticket_id",
                                   similar_tickets[f[j]].id)
              /\ \A j, l \in 1..Len(candidates.list) :
                    (j < l /\ candidates.list[j].score = candidates.list[l].score)
                        => f[j] < f[l]

\* two different hits of equal score have been turned into candidates
C13_Witness ==
    /\ candidates.returned
    /\ Len(similar_tickets) = 2
    /\ similar_tickets[1].score = similar_tickets[2].score
    /\ similar_tickets[1].id # similar_tickets[2].id
    /\ candidates.list[1].ticket_id = similar_tickets[1].id

============================================================================
